---- MODULE Spec2Model ----
(***************************************************************************)
(* Model of salary_calculator.py, a Streamlit script.  Streamlit executes  *)
(* the whole script top to bottom once at start-up and once more after     *)
(* every widget interaction, so every action below is one full run of the  *)
(* script with one widget value changed.                                   *)
(*                                                                         *)
(* Number representation (the script computes in Python floats; the model  *)
(* computes the same real numbers exactly, in fixed point):                *)
(*   - base_salary, special_deduction, TAX_BRACKETS, TAX_DEDUCTIONS are     *)
(*     whole yuan, as in the source;                                       *)
(*   - the six slider rates are kept in tenths of a percent (8.0% = 80),    *)
(*     the finest slider step being 0.1;                                   *)
(*   - TAX_RATES are kept in percent (0.03 = 3);                            *)
(*   - every computed amount of money (insurance, taxable income, tax, net *)
(*     salary) is in mils, 1 yuan = 1000 mils.  With salaries that are     *)
(*     multiples of 100 yuan every amount of the model is exact.           *)
(* Floating-point rounding is not modelled.                                *)
(***************************************************************************)
EXTENDS Integers, Sequences, FiniteSets, TLC

VARIABLES
    base_salary, city,
    pension_rate, medical_rate, unemployment_rate,
    housing_rate, injury_rate, maternity_rate,
    special_deduction,
    insurance, total_insurance, taxable_income, income_tax, net_salary,
    tax_rate, tax_deduction,
    analysis, button, report, fault,
    tax_pc, arg_x, arg_y, ret_x, ret_y

inputs == <<base_salary, city, pension_rate, medical_rate, unemployment_rate,
            housing_rate, injury_rate, maternity_rate, special_deduction>>

results == <<insurance, total_insurance, taxable_income, income_tax, net_salary,
             tax_rate, tax_deduction, analysis, button, report, fault>>

harness == <<tax_pc, arg_x, arg_y, ret_x, ret_y>>

vars == <<inputs, results, harness>>

(***************************************************************************)
(* Bounds of the model.                                                    *)
(***************************************************************************)
MaxSalarySteps == 3

Span == 2

(***************************************************************************)
(* Units.                                                                  *)
(***************************************************************************)
Mils(yuan) == yuan * 1000

\* amount (mils) times a rate given in percent; exact when amount is a
\* multiple of 100 mils, split so that no intermediate leaves 32 bits
TimesPercent(amount, pct) ==
    (amount \div 100) * pct + ((amount % 100) * pct) \div 100

\* Python list indexing: 0-based, and [-1] is the last element
At(list, i) == list[i + 1]

Last(list) == list[Len(list)]

(***************************************************************************)
(* The constant tables (lines 6-16).  They are module-level literals that  *)
(* no statement of the script assigns to or mutates, hence definitions.    *)
(***************************************************************************)
TAX_BRACKETS == <<0, 3000, 12000, 25000, 35000, 55000, 80000>>

TAX_RATES == <<3, 10, 20, 25, 30, 35, 45>>

TAX_DEDUCTIONS_typo == <<0, 210, 1400, 2660, 4410, 7160, 15160>>

TAX_DEDUCTIONS == <<0, 210, 1410, 2660, 4410, 7160, 15160>>

Cities == {"Shanghai", "Beijing", "Guangzhou", "Shenzhen"}

RateNames == {"pension", "medical", "unemployment", "injury", "maternity", "housing"}

CITY_PRESETS ==
    [c \in Cities |->
        CASE c = "Shanghai"  -> [pension |-> 80, medical |-> 20, unemployment |-> 5,
                                 injury |-> 2, maternity |-> 0, housing |-> 70]
          [] c = "Beijing"   -> [pension |-> 80, medical |-> 20, unemployment |-> 5,
                                 injury |-> 2, maternity |-> 0, housing |-> 120]
          [] c = "Guangzhou" -> [pension |-> 80, medical |-> 20, unemployment |-> 5,
                                 injury |-> 2, maternity |-> 0, housing |-> 50]
          [] c = "Shenzhen"  -> [pension |-> 80, medical |-> 20, unemployment |-> 3,
                                 injury |-> 2, maternity |-> 0, housing |-> 50]]

DefaultCity == "Shanghai"

(***************************************************************************)
(* calculate_insurance (lines 46-54) and the dictionary it is called with  *)
(* (lines 64-71).  base is whole yuan, a rate is tenths of a percent, so   *)
(* base * rate / 100 yuan is base * rate mils.                             *)
(***************************************************************************)
InsuranceRates(p, m, u, h, i, mt) ==
    [pension |-> p, medical |-> m, unemployment |-> u,
     injury |-> i, maternity |-> mt, housing |-> h]

calculate_insurance_swapped(base, rates) ==
    [pension      |-> base * rates.pension,
     medical      |-> base * rates.medical,
     unemployment |-> base * rates.unemployment,
     injury       |-> base * rates.injury,
     maternity    |-> base * rates.maternity,
     housing      |-> base * rates.pension]

calculate_insurance(base, rates) ==
    [pension      |-> base * rates.pension,
     medical      |-> base * rates.medical,
     unemployment |-> base * rates.unemployment,
     injury       |-> base * rates.injury,
     maternity    |-> base * rates.maternity,
     housing      |-> base * rates.housing]

\* sum(insurance.values()), in the dictionary's insertion order (line 73)
SumValues(ins) ==
    0 + ins.pension + ins.medical + ins.unemployment
      + ins.injury + ins.maternity + ins.housing

(***************************************************************************)
(* calculate_tax (lines 57-61): the for loop over i = 1 .. len-1, then the *)
(* fall-through return with the last tier.                                 *)
(***************************************************************************)
RECURSIVE calculate_tax_loop(_, _)
calculate_tax_loop(i, x) ==
    IF i >= Len(TAX_BRACKETS)
    THEN TimesPercent(x, Last(TAX_RATES)) - Mils(Last(TAX_DEDUCTIONS))
    ELSE IF x <= Mils(At(TAX_BRACKETS, i))
         THEN TimesPercent(x, At(TAX_RATES, i - 1)) - Mils(At(TAX_DEDUCTIONS, i - 1))
         ELSE calculate_tax_loop(i + 1, x)

RECURSIVE calculate_tax_shifted_loop(_, _)
calculate_tax_shifted_loop(i, x) ==
    IF i >= Len(TAX_BRACKETS)
    THEN TimesPercent(x, Last(TAX_RATES)) - Mils(Last(TAX_DEDUCTIONS))
    ELSE IF x <= Mils(At(TAX_BRACKETS, i))
         THEN TimesPercent(x, At(TAX_RATES, i)) - Mils(At(TAX_DEDUCTIONS, i - 1))
         ELSE calculate_tax_shifted_loop(i + 1, x)

RECURSIVE calculate_tax_deduction_loop(_, _)
calculate_tax_deduction_loop(i, x) ==
    IF i >= Len(TAX_BRACKETS)
    THEN TimesPercent(x, Last(TAX_RATES)) - Mils(Last(TAX_DEDUCTIONS))
    ELSE IF x <= Mils(At(TAX_BRACKETS, i))
         THEN TimesPercent(x, At(TAX_RATES, i - 1)) - Mils(At(TAX_DEDUCTIONS, i))
         ELSE calculate_tax_deduction_loop(i + 1, x)

calculate_tax_deduction_shifted(x) == calculate_tax_deduction_loop(1, x)

calculate_tax_rate_shifted(x) == calculate_tax_shifted_loop(1, x)

calculate_tax(x) == calculate_tax_loop(1, x)

(***************************************************************************)
(* The composition of lines 75-77.                                         *)
(***************************************************************************)
StandardDeduction == 5000

Max(a, b) == IF a >= b THEN a ELSE b

TaxableIncomeNoSpecial(base, total, special) ==
    Max(0, Mils(base) - total - Mils(StandardDeduction))

TaxableIncome(base, total, special) ==
    Max(0, Mils(base) - total - Mils(StandardDeduction) - Mils(special))

IncomeTax(taxable) == IF taxable > 0 THEN calculate_tax(taxable) ELSE 0

NetSalaryPlusTax(base, total, tax) == Mils(base) - total + tax

NetSalary(base, total, tax) == Mils(base) - total - tax

(***************************************************************************)
(* The displayed rate and quick deduction (lines 94-97): next(generator,   *)
(* default) yields the first element of the generator, or the default.     *)
(***************************************************************************)
RECURSIVE NextRate(_, _)
NextRate(i, x) ==
    IF i >= Len(TAX_BRACKETS) THEN Last(TAX_RATES)
    ELSE IF x <= Mils(At(TAX_BRACKETS, i)) THEN At(TAX_RATES, i - 1)
         ELSE NextRate(i + 1, x)

RECURSIVE NextRateStrict(_, _)
NextRateStrict(i, x) ==
    IF i >= Len(TAX_BRACKETS) THEN Last(TAX_RATES)
    ELSE IF x < Mils(At(TAX_BRACKETS, i)) THEN At(TAX_RATES, i - 1)
         ELSE NextRateStrict(i + 1, x)

DisplayedRateStrict(x) == NextRateStrict(1, x)

DisplayedRate(x) == NextRate(1, x)

RECURSIVE NextDeduction(_, _)
NextDeduction(i, x) ==
    IF i >= Len(TAX_BRACKETS) THEN Last(TAX_DEDUCTIONS)
    ELSE IF x <= Mils(At(TAX_BRACKETS, i)) THEN At(TAX_DEDUCTIONS, i - 1)
         ELSE NextDeduction(i + 1, x)

DisplayedDeduction(x) == NextDeduction(1, x)

(***************************************************************************)
(* Divisions by base_salary.  A quotient is kept as the exact fraction; a  *)
(* division by zero raises ZeroDivisionError, kept as the fraction 0/0.    *)
(***************************************************************************)
ZeroDivisionError == [num |-> 0, den |-> 0]

Divide(a, b) == IF b = 0 THEN ZeroDivisionError ELSE [num |-> a, den |-> b]

Raised(q) == q.den = 0

\* min(1.0, a / b) of st.progress (lines 115-117)
Min1(q) == IF Raised(q) THEN q
           ELSE IF q.num >= q.den THEN [num |-> 1, den |-> 1] ELSE q

\* the salary composition section (lines 113-122)
Analysis(base, total, tax, net) ==
    IF base > 0
    THEN [kind |-> "progress",
          net |-> Min1(Divide(net, Mils(base))),
          insurance |-> Min1(Divide(total, Mils(base))),
          tax |-> Min1(Divide(tax, Mils(base)))]
    ELSE [kind |-> "warning",
          net |-> [num |-> 0, den |-> 1],
          insurance |-> [num |-> 0, den |-> 1],
          tax |-> [num |-> 0, den |-> 1]]

AnalysisRaised(a) == Raised(a.net) \/ Raised(a.insurance) \/ Raised(a.tax)

\* the three percentage lines of the report (lines 164-166)
ReportShares(base, total, tax, net) ==
    [net |-> Divide(net, Mils(base)),
     insurance |-> Divide(total, Mils(base)),
     tax |-> Divide(tax, Mils(base))]

SharesRaised(sh) == Raised(sh.net) \/ Raised(sh.insurance) \/ Raised(sh.tax)

NoReport == [shown |-> FALSE]

\* the report text handed to st.download_button (lines 141-168)
Report(c, base, ins, rates, taxable, rate, tax, net, shares) ==
    [shown |-> TRUE, city |-> c, base_salary |-> base, insurance |-> ins,
     rates |-> rates, taxable_income |-> taxable, tax_rate |-> rate,
     income_tax |-> tax, net_salary |-> net, shares |-> shares]

(***************************************************************************)
(* The module-level computation (lines 72-77 and 94-97): everything the    *)
(* page shows, from the widget values of the current run.                  *)
(***************************************************************************)
RecalculateCached(base, rates, special) ==
    IF base = base_salary /\ special = special_deduction
    THEN [insurance |-> insurance, total_insurance |-> total_insurance,
          taxable_income |-> taxable_income, income_tax |-> income_tax,
          net_salary |-> net_salary, tax_rate |-> tax_rate,
          tax_deduction |-> tax_deduction]
    ELSE LET ins     == calculate_insurance(base, rates)
             total   == SumValues(ins)
             taxable == TaxableIncome(base, total, special)
             tax     == IncomeTax(taxable)
         IN  [insurance |-> ins, total_insurance |-> total,
              taxable_income |-> taxable, income_tax |-> tax,
              net_salary |-> NetSalary(base, total, tax),
              tax_rate |-> DisplayedRate(taxable),
              tax_deduction |-> DisplayedDeduction(taxable)]

ExecuteCalculation(base, rates, special) ==
    LET ins     == calculate_insurance(base, rates)
        total   == SumValues(ins)
        taxable == TaxableIncome(base, total, special)
        tax     == IncomeTax(taxable)
    IN  [insurance |-> ins, total_insurance |-> total,
         taxable_income |-> taxable, income_tax |-> tax,
         net_salary |-> NetSalary(base, total, tax),
         tax_rate |-> DisplayedRate(taxable),
         tax_deduction |-> DisplayedDeduction(taxable)]

\* a rerun executes lines 72-97 again, from the widget values alone
Recalculate(base, rates, special) == ExecuteCalculation(base, rates, special)

(***************************************************************************)
(* Widget values the model lets the user choose.  The salary and deduction *)
(* inputs are unbounded integers >= 0 in the script (lines 26, 43); the    *)
(* sliders (lines 34-40) are sampled at their ends and at every preset.    *)
(***************************************************************************)
BaseSalaries == {0, 100, 8000, 15000} \cup {40000 * k : k \in 1..MaxSalarySteps}

SpecialDeductions == {0, 1000}

\* st.slider(label, min, max, value, step) in tenths of a percent
SliderValues(min, max, step) == {v \in min..max : (v - min) % step = 0}

PensionChoices == {v \in SliderValues(0, 200, 5) : v \in {0, 80, 200}}

MedicalChoices == {v \in SliderValues(0, 120, 5) : v \in {0, 20, 120}}

UnemploymentChoices == {v \in SliderValues(0, 20, 1) : v \in {0, 3, 5, 20}}

HousingChoices == {v \in SliderValues(0, 120, 5) : v \in {0, 50, 70, 120}}

InjuryChoices == {v \in SliderValues(0, 20, 1) : v \in {0, 2, 20}}

MaternityChoices == {v \in SliderValues(0, 10, 1) : v \in {0, 10}}

(***************************************************************************)
(* One run of the script with the given widget values; clicked is the      *)
(* value st.button returns on this run (line 140).                         *)
(***************************************************************************)
ScriptRun(b, c, p, m, u, h, i, mt, s, clicked) ==
    \E rates \in {InsuranceRates(p, m, u, h, i, mt)} :
    \E r \in {Recalculate(b, rates, s)} :
    \E a \in {Analysis(b, r.total_insurance, r.income_tax, r.net_salary)} :
    \E shares \in {ReportShares(b, r.total_insurance, r.income_tax, r.net_salary)} :
    \E raised \in {AnalysisRaised(a) \/ (clicked /\ SharesRaised(shares))} :
        /\ base_salary' = b
        /\ city' = c
        /\ pension_rate' = p
        /\ medical_rate' = m
        /\ unemployment_rate' = u
        /\ housing_rate' = h
        /\ injury_rate' = i
        /\ maternity_rate' = mt
        /\ special_deduction' = s
        /\ insurance' = r.insurance
        /\ total_insurance' = r.total_insurance
        /\ taxable_income' = r.taxable_income
        /\ income_tax' = r.income_tax
        /\ net_salary' = r.net_salary
        /\ tax_rate' = r.tax_rate
        /\ tax_deduction' = r.tax_deduction
        /\ analysis' = a
        /\ button' = clicked
        /\ fault' = IF raised THEN "ZeroDivisionError" ELSE "none"
        /\ report' = IF clicked /\ ~raised
                     THEN Report(c, b, r.insurance, rates, r.taxable_income,
                                 r.tax_rate, r.income_tax, r.net_salary, shares)
                     ELSE NoReport
        /\ UNCHANGED harness

\* a slider keeps the user's value while its arguments are the same; when the
\* selected city changes its default value (lines 30, 34-40) the slider is a
\* new widget and shows the new preset
SliderAfterCity(name, old, c) ==
    IF CITY_PRESETS[c][name] = CITY_PRESETS[city][name]
    THEN old ELSE CITY_PRESETS[c][name]

SetBaseSalary ==
    \E b \in BaseSalaries :
        /\ b # base_salary
        /\ ScriptRun(b, city, pension_rate, medical_rate, unemployment_rate,
                     housing_rate, injury_rate, maternity_rate,
                     special_deduction, FALSE)

SelectCity ==
    \E c \in Cities :
        /\ c # city
        /\ ScriptRun(base_salary, c,
                     SliderAfterCity("pension", pension_rate, c),
                     SliderAfterCity("medical", medical_rate, c),
                     SliderAfterCity("unemployment", unemployment_rate, c),
                     SliderAfterCity("housing", housing_rate, c),
                     SliderAfterCity("injury", injury_rate, c),
                     SliderAfterCity("maternity", maternity_rate, c),
                     special_deduction, FALSE)

SetPension ==
    \E v \in PensionChoices :
        /\ v # pension_rate
        /\ ScriptRun(base_salary, city, v, medical_rate, unemployment_rate,
                     housing_rate, injury_rate, maternity_rate,
                     special_deduction, FALSE)

SetMedical ==
    \E v \in MedicalChoices :
        /\ v # medical_rate
        /\ ScriptRun(base_salary, city, pension_rate, v, unemployment_rate,
                     housing_rate, injury_rate, maternity_rate,
                     special_deduction, FALSE)

SetUnemployment ==
    \E v \in UnemploymentChoices :
        /\ v # unemployment_rate
        /\ ScriptRun(base_salary, city, pension_rate, medical_rate, v,
                     housing_rate, injury_rate, maternity_rate,
                     special_deduction, FALSE)

SetHousing ==
    \E v \in HousingChoices :
        /\ v # housing_rate
        /\ ScriptRun(base_salary, city, pension_rate, medical_rate,
                     unemployment_rate, v, injury_rate, maternity_rate,
                     special_deduction, FALSE)

SetInjury ==
    \E v \in InjuryChoices :
        /\ v # injury_rate
        /\ ScriptRun(base_salary, city, pension_rate, medical_rate,
                     unemployment_rate, housing_rate, v, maternity_rate,
                     special_deduction, FALSE)

SetMaternity ==
    \E v \in MaternityChoices :
        /\ v # maternity_rate
        /\ ScriptRun(base_salary, city, pension_rate, medical_rate,
                     unemployment_rate, housing_rate, injury_rate, v,
                     special_deduction, FALSE)

SetSpecialDeduction ==
    \E s \in SpecialDeductions :
        /\ s # special_deduction
        /\ ScriptRun(base_salary, city, pension_rate, medical_rate,
                     unemployment_rate, housing_rate, injury_rate,
                     maternity_rate, s, FALSE)

ClickReport ==
    ScriptRun(base_salary, city, pension_rate, medical_rate, unemployment_rate,
              housing_rate, injury_rate, maternity_rate, special_deduction, TRUE)

(***************************************************************************)
(* The first run of the script: every widget at its default (lines 26-43). *)
(***************************************************************************)
HarnessIdle ==
    /\ tax_pc = "idle"
    /\ arg_x = 0
    /\ arg_y = 0
    /\ ret_x = 0
    /\ ret_y = 0

ProgramInit ==
    LET preset == CITY_PRESETS[DefaultCity]
        rates  == InsuranceRates(preset.pension, preset.medical, preset.unemployment,
                                 preset.housing, preset.injury, preset.maternity)
        r      == ExecuteCalculation(15000, rates, 1000)
    IN  /\ base_salary = 15000
        /\ city = DefaultCity
        /\ pension_rate = preset.pension
        /\ medical_rate = preset.medical
        /\ unemployment_rate = preset.unemployment
        /\ housing_rate = preset.housing
        /\ injury_rate = preset.injury
        /\ maternity_rate = preset.maternity
        /\ special_deduction = 1000
        /\ insurance = r.insurance
        /\ total_insurance = r.total_insurance
        /\ taxable_income = r.taxable_income
        /\ income_tax = r.income_tax
        /\ net_salary = r.net_salary
        /\ tax_rate = r.tax_rate
        /\ tax_deduction = r.tax_deduction
        /\ analysis = Analysis(15000, r.total_insurance, r.income_tax, r.net_salary)
        /\ button = FALSE
        /\ fault = "none"
        /\ report = NoReport

Init == ProgramInit /\ HarnessIdle

Next ==
    \/ SetBaseSalary
    \/ SelectCity
    \/ SetPension
    \/ SetMedical
    \/ SetUnemployment
    \/ SetHousing
    \/ SetInjury
    \/ SetMaternity
    \/ SetSpecialDeduction
    \/ ClickReport

Spec == Init /\ [][Next]_vars

(***************************************************************************)
(* calculate_tax as a function on its own: the arguments are drawn around  *)
(* every boundary of the schedule (Span steps of 0.1 yuan on each side,    *)
(* which puts negative incomes around the boundary 0), plus one income far *)
(* above the last boundary and one far below zero.                         *)
(***************************************************************************)
TaxInputs ==
    {Mils(TAX_BRACKETS[k]) + d * 100 : k \in 1..Len(TAX_BRACKETS), d \in -Span..Span}
        \cup {Mils(100000), -Mils(100)}

InitTax ==
    /\ ProgramInit
    /\ tax_pc = "call"
    /\ arg_x \in TaxInputs
    /\ arg_y \in TaxInputs
    /\ ret_x = 0
    /\ ret_y = 0

TaxCall ==
    /\ tax_pc = "call"
    /\ ret_x' = calculate_tax(arg_x)
    /\ ret_y' = calculate_tax(arg_y)
    /\ tax_pc' = "returned"
    /\ UNCHANGED <<inputs, results, arg_x, arg_y>>

NextTax == TaxCall

SpecTax == InitTax /\ [][NextTax]_vars

(***************************************************************************)
(* Properties.  Amounts are mils; every income the model feeds to          *)
(* calculate_tax is a multiple of 100 mils, so x \div 100 is exact.        *)
(***************************************************************************)
Returned == tax_pc = "returned"

\* the schedule written out tier by tier: x * rate - quickDeduction
ScheduleTax(x) ==
    CASE x <= 3000000                   -> (x \div 100) * 3
      [] x > 3000000  /\ x <= 12000000  -> (x \div 100) * 10 - 210000
      [] x > 12000000 /\ x <= 25000000  -> (x \div 100) * 20 - 1410000
      [] x > 25000000 /\ x <= 35000000  -> (x \div 100) * 25 - 2660000
      [] x > 35000000 /\ x <= 55000000  -> (x \div 100) * 30 - 4410000
      [] x > 55000000 /\ x <= 80000000  -> (x \div 100) * 35 - 7160000
      [] x > 80000000                   -> (x \div 100) * 45 - 15160000

\* C1: for every taxable income x > 0, calculate_tax(x) is x * rate - quick
\* deduction of the tier of the fixed schedule that contains x (upper bounds
\* inclusive, the last tier unbounded).
C1_TaxFollowsSchedule ==
    Returned =>
        /\ arg_x % 100 = 0
        /\ arg_x > 0 => ret_x = ScheduleTax(arg_x)
        /\ arg_y > 0 => ret_y = ScheduleTax(arg_y)

C1_Witness ==
    /\ Returned
    /\ arg_x = 100000000
    /\ ret_x = 29840000
    /\ arg_y = 12000000
    /\ ret_y = 990000

\* C2: taxable_income = max(0, base_salary - total_insurance - 5000 -
\* special_deduction); income_tax = calculate_tax(taxable_income) if
\* taxable_income > 0, else 0; net_salary = base_salary - total_insurance -
\* income_tax; and the worked example of 15000 yuan with the Shanghai rates.
C2_Composition ==
    /\ taxable_income =
           (IF base_salary * 1000 - total_insurance - 5000000 - special_deduction * 1000 > 0
            THEN base_salary * 1000 - total_insurance - 5000000 - special_deduction * 1000
            ELSE 0)
    /\ income_tax = (IF taxable_income > 0 THEN calculate_tax(taxable_income) ELSE 0)
    /\ net_salary = base_salary * 1000 - total_insurance - income_tax
    /\ (/\ base_salary = 15000
        /\ special_deduction = 0
        /\ <<pension_rate, medical_rate, unemployment_rate,
             injury_rate, maternity_rate, housing_rate>> = <<80, 20, 5, 2, 0, 70>>)
       => /\ total_insurance = 2655000
          /\ taxable_income = 7345000
          /\ income_tax = 524500
          /\ net_salary = 11820500

C2_Witness ==
    /\ base_salary = 15000
    /\ special_deduction = 0
    /\ <<pension_rate, medical_rate, unemployment_rate,
         injury_rate, maternity_rate, housing_rate>> = <<80, 20, 5, 2, 0, 70>>
    /\ net_salary = 11820500

\* C3 (as claimed): for every taxable income <= 0, calculate_tax returns 0.
C3_ZeroTaxForNonPositive ==
    Returned => /\ arg_x <= 0 => ret_x = 0
                /\ arg_y <= 0 => ret_y = 0

\* C3 (amended): calculate_tax returns 0 for a taxable income of exactly 0;
\* for a taxable income below 0 it returns the first tier's 3% of the income,
\* a negative amount, and raises no fault.
C3_FirstTierForNonPositive ==
    Returned =>
        /\ arg_x = 0 => ret_x = 0
        /\ arg_x < 0 => ret_x = (arg_x \div 100) * 3 /\ ret_x < 0
        /\ arg_y = 0 => ret_y = 0
        /\ arg_y < 0 => ret_y = (arg_y \div 100) * 3 /\ ret_y < 0

C3_Witness ==
    /\ Returned
    /\ arg_x = -100000
    /\ ret_x = -3000
    /\ arg_y = 0
    /\ ret_y = 0

\* C4: calculate_insurance returns exactly six amounts, each the base salary
\* times the rate of its own category / 100, and total_insurance, their sum,
\* is the base salary times the sum of the six rates / 100.
C4_InsurancePerCategory ==
    /\ DOMAIN insurance = RateNames
    /\ insurance.pension = base_salary * pension_rate
    /\ insurance.medical = base_salary * medical_rate
    /\ insurance.unemployment = base_salary * unemployment_rate
    /\ insurance.injury = base_salary * injury_rate
    /\ insurance.maternity = base_salary * maternity_rate
    /\ insurance.housing = base_salary * housing_rate
    /\ total_insurance =
           base_salary * (pension_rate + medical_rate + unemployment_rate
                          + injury_rate + maternity_rate + housing_rate)

C4_Witness ==
    /\ base_salary = 40000
    /\ Cardinality({pension_rate, medical_rate, unemployment_rate,
                    injury_rate, maternity_rate, housing_rate}) = 6
    /\ insurance.housing = 40000 * 120
    /\ insurance.pension = 40000 * 80

\* C5: calculate_tax is monotonically non-decreasing on incomes >= 0, within
\* a tier, across tiers and on the boundaries.
C5_Monotone ==
    (Returned /\ 0 <= arg_x /\ arg_x <= arg_y) => ret_x <= ret_y

C5_Witness ==
    /\ Returned
    /\ arg_x = 3000000
    /\ arg_y = 3000100
    /\ ret_x < ret_y

\* the six finite boundaries (yuan), each with the rate (percent) and quick
\* deduction (yuan) of the tier that starts just above it
UpperTiers ==
    {<<3000, 10, 210>>, <<12000, 20, 1410>>, <<25000, 25, 2660>>,
     <<35000, 30, 4410>>, <<55000, 35, 7160>>, <<80000, 45, 15160>>}

\* C6: the tax is continuous at each finite boundary B: calculate_tax(B)
\* equals B * rate - quickDeduction of the tier above B, and an income one
\* step (0.1 yuan) above B owes at most the upper rate times the step more.
C6_ContinuousAtBoundaries ==
    Returned =>
        \A t \in UpperTiers :
            arg_x = t[1] * 1000 =>
                /\ ret_x = (arg_x \div 100) * t[2] - t[3] * 1000
                /\ arg_y = arg_x + 100 =>
                       /\ ret_y >= ret_x
                       /\ ret_y - ret_x <= t[2]

C6_Witness ==
    /\ Returned
    /\ arg_x = 12000000
    /\ arg_y = 12000100
    /\ ret_x = 990000
    /\ ret_y = 990020

\* C7: the result holds no incremental state: after any sequence of input
\* changes every shown value is the function of the current widget values,
\* and the constant tables are the ones the script's literals define.
C7_NoIncrementalState ==
    LET rates   == InsuranceRates(pension_rate, medical_rate, unemployment_rate,
                                  housing_rate, injury_rate, maternity_rate)
        ins     == calculate_insurance(base_salary, rates)
        total   == SumValues(ins)
        taxable == TaxableIncome(base_salary, total, special_deduction)
        tax     == IncomeTax(taxable)
    IN  /\ insurance = ins
        /\ total_insurance = total
        /\ taxable_income = taxable
        /\ income_tax = tax
        /\ net_salary = NetSalary(base_salary, total, tax)
        /\ TAX_BRACKETS = <<0, 3000, 12000, 25000, 35000, 55000, 80000>>
        /\ TAX_RATES = <<3, 10, 20, 25, 30, 35, 45>>
        /\ TAX_DEDUCTIONS = <<0, 210, 1410, 2660, 4410, 7160, 15160>>
        /\ DOMAIN CITY_PRESETS = Cities
        /\ \A c \in Cities : DOMAIN CITY_PRESETS[c] = RateNames

\* a run that follows at least one interaction (the report button was
\* pressed) and shows the values of the default inputs
C7_Witness ==
    /\ button
    /\ report.shown
    /\ base_salary = 15000
    /\ city = DefaultCity
    /\ special_deduction = 1000
    /\ <<pension_rate, medical_rate, unemployment_rate,
         injury_rate, maternity_rate, housing_rate>> = <<80, 20, 5, 2, 0, 70>>
    /\ net_salary = 11920500

\* C8 (as claimed): every division by base_salary runs only where
\* base_salary > 0; pressing the report button always produces a report and
\* never reaches a division-by-zero fault.
C8_NoDivisionByZero ==
    /\ fault = "none"
    /\ button => report.shown

\* C9: the displayed rate and quick deduction are those the tax was computed
\* with: income_tax = taxable_income * tax_rate - tax_deduction in every
\* state (taxable_income = 0 included), and both belong to the same tier.
C9_DisplayedTierIsAppliedTier ==
    /\ taxable_income >= 0
    /\ taxable_income % 100 = 0
    /\ income_tax = (taxable_income \div 100) * tax_rate - tax_deduction * 1000
    /\ \E k \in 1..7 : tax_rate = TAX_RATES[k] /\ tax_deduction = TAX_DEDUCTIONS[k]

C9_Witness ==
    /\ base_salary > 0
    /\ taxable_income = 0
    /\ income_tax = 0
    /\ tax_rate = 3
    /\ tax_deduction = 0

\* C10: for every input the widgets permit, 0 <= income_tax and
\* 0 <= net_salary <= base_salary.
C10_NetWithinSalary ==
    /\ 0 <= income_tax
    /\ 0 <= net_salary
    /\ net_salary <= base_salary * 1000

C10_Witness ==
    /\ <<pension_rate, medical_rate, unemployment_rate,
         injury_rate, maternity_rate, housing_rate>> = <<200, 120, 20, 20, 10, 120>>
    /\ base_salary = 120000
    /\ income_tax > 0
    /\ net_salary < base_salary * 1000

====
